---- MODULE Spec2Model ----
(***************************************************************************)
(* Derivative engine of genlm_grammar/derivatives.py: grammar nodes on a   *)
(* heap (object identity = heap index), the constructors wrapped by        *)
(* `cached`, Lazy resolution, the BookKeeper fixed-point solver and the    *)
(* derivative / matches pipeline.                                          *)
(***************************************************************************)
EXTENDS Integers, Sequences, FiniteSets, TLC

\* ------------------------------------------------------------------------
\* Bounds
\* ------------------------------------------------------------------------
NB == 2          \* size of the byte alphabet (256 in the source)
MaxNodes == 15   \* heap capacity: objects the process can allocate
MaxLen == 2      \* longest input the client scans
MaxAsk == 1      \* property queries the client issues

ANY_BYTE == 0 .. (NB - 1)

all_complete == {"matches_empty", "possible_starts", "could_have_matches", "derivatives"}

\* a derivatives dict: byte -> node, 0 = key absent
NoDerivs == [c \in ANY_BYTE |-> 0]

BookKeeping ==
  [matches_empty |-> FALSE, possible_starts |-> ANY_BYTE,
   could_have_matches |-> FALSE, derivatives |-> NoDerivs, complete |-> {}]

NoThunk == [kind |-> "none", a |-> 0, b |-> 0]

\* one object of class Null/Epsilon/Chars/Any/Cat/Union/Lazy.  calls is a
\* history field: how many times the thunk of a Lazy has been invoked.
Grammar(tag) ==
  [tag |-> tag, chars |-> {}, length |-> 0, left |-> 0, right |-> 0,
   children |-> {}, thunk |-> NoThunk, book_keeping |-> BookKeeping, calls |-> 0]

null == 1
epsilon == 2
dot == 3

\* the result of a call that raised instead of returning an object
Raised == 0

\* a Python object that is not a Grammar (a str, an int)
NonGrammar == Grammar("Object")

NullObject ==
  [Grammar("Null") EXCEPT !.book_keeping.possible_starts = {},
                          !.book_keeping.complete = all_complete]

EpsilonObject ==
  [Grammar("Epsilon") EXCEPT !.book_keeping.possible_starts = {},
                             !.book_keeping.matches_empty = TRUE,
                             !.book_keeping.could_have_matches = TRUE,
                             !.book_keeping.complete = all_complete]

\* ------------------------------------------------------------------------
\* Lazy helpers and the `cached` wrapper
\* ------------------------------------------------------------------------
has_been_forced(h, g) == h[g].tag = "Lazy" /\ h[g].thunk.kind = "value"

\* cached: a forced Lazy argument / result is replaced by its value
cached(h, g) == IF has_been_forced(h, g) THEN h[g].thunk.a ELSE g

\* The one element of a singleton.  The({e(x) : x \in {d}}) evaluates d once
\* and names its value x in e: the intermediate results of a call are values.
The(S) == CHOOSE x \in S : TRUE

\* iteration order of a set of objects (hash = identity): a fixed order per
\* process, ascending or descending in allocation order
RECURSIVE Ordered(_, _)
Ordered(S, ord) ==
  IF S = {} THEN << >>
  ELSE The({<< x >> \o Ordered(S \ {x}, ord) :
              x \in {IF ord = "asc" THEN CHOOSE y \in S : \A z \in S : y <= z
                      ELSE CHOOSE y \in S : \A z \in S : y >= z}})

\* ------------------------------------------------------------------------
\* Constructors.  Each takes the heap and returns [h |-> heap', r |-> node].
\* ------------------------------------------------------------------------
RECURSIVE any(_, _)
RECURSIVE AnyDerivs(_, _, _, _)
RECURSIVE do_initial_book_keeping(_, _)

AnyDerivs(h, k, c, acc) ==
  IF c = NB THEN [h |-> h, d |-> acc]
  ELSE The({AnyDerivs(s.h, k, c + 1, [acc EXCEPT ![c] = s.r]) : s \in {any(h, k - 1)}})

\* do_initial_book_keeping without its Chars case
do_initial_book_keeping_any_only(h, g) ==
  IF h[g].tag = "Any" THEN
    The({[ds.h EXCEPT ![g].book_keeping =
            [matches_empty |-> FALSE, possible_starts |-> ANY_BYTE,
             could_have_matches |-> TRUE, derivatives |-> ds.d,
             complete |-> all_complete]] :
         ds \in {AnyDerivs(h, h[g].length, 0, NoDerivs)}})
  ELSE h

do_initial_book_keeping(h, g) ==
  IF h[g].tag = "Any" THEN
    The({[ds.h EXCEPT ![g].book_keeping =
            [matches_empty |-> FALSE, possible_starts |-> ANY_BYTE,
             could_have_matches |-> TRUE, derivatives |-> ds.d,
             complete |-> all_complete]] :
         ds \in {AnyDerivs(h, h[g].length, 0, NoDerivs)}})
  ELSE IF h[g].tag = "Chars" THEN
    [h EXCEPT ![g].book_keeping =
          [matches_empty |-> FALSE, possible_starts |-> h[g].chars,
           could_have_matches |-> TRUE,
           derivatives |-> [c \in ANY_BYTE |-> IF c \in h[g].chars THEN epsilon ELSE 0],
           complete |-> all_complete]]
  ELSE h

\* the assertions of Cat.__init__, of Union.__init__ and, for Any, of
\* do_initial_book_keeping
constructor_checks(h, node) ==
  CASE node.tag = "Cat" -> h[node.left].tag # "Object" /\ h[node.right].tag # "Object"
    [] node.tag = "Union" -> \A c \in node.children : h[c].tag # "Object"
    [] node.tag = "Any" -> node.length > 0
    [] OTHER -> TRUE

\* a freshly built object leaving a cached function
New(h, node) ==
  IF ~constructor_checks(h, node) THEN [h |-> h, r |-> Raised]
  ELSE LET g == Len(h) + 1
       IN [h |-> do_initial_book_keeping(Append(h, node), g), r |-> g]

\* any without its case for n = 0: always an Any object
any_always(h, n) == New(h, [Grammar("Any") EXCEPT !.length = n])

any(h, n) ==
  IF n = 0 THEN [h |-> h, r |-> epsilon]
  ELSE New(h, [Grammar("Any") EXCEPT !.length = n])

\* chars without its two special cases: always a Chars object
chars_unchecked(h, cs) == New(h, [Grammar("Chars") EXCEPT !.chars = cs])

chars(h, cs) ==
  IF Cardinality(cs) = 0 THEN [h |-> h, r |-> null]
  ELSE IF Cardinality(cs) = NB THEN [h |-> h, r |-> dot]
  ELSE New(h, [Grammar("Chars") EXCEPT !.chars = cs])

char(h, c) == chars(h, {c})

RECURSIVE _cat(_, _, _)
\* _cat without its two Epsilon cases
_cat_keep_epsilon(h, left0, right0) ==
  LET left == cached(h, left0)
      right == cached(h, right0)
  IN IF h[left].tag = "Null" \/ h[right].tag = "Null" THEN [h |-> h, r |-> null]
     ELSE IF h[left].tag = "Cat" THEN
       The({IF inner.r = Raised THEN inner
            ELSE The({IF outer.r = Raised THEN outer
                      ELSE [h |-> outer.h, r |-> cached(outer.h, outer.r)] :
                      outer \in {_cat(inner.h, h[left].left, inner.r)}}) :
            inner \in {_cat(h, h[left].right, right)}})
     ELSE IF h[left].tag = "Any" /\ h[right].tag = "Any" THEN
       New(h, [Grammar("Any") EXCEPT !.length = h[left].length + h[right].length])
     ELSE New(h, [Grammar("Cat") EXCEPT !.left = left, !.right = right])

_cat(h, left0, right0) ==
  LET left == cached(h, left0)
      right == cached(h, right0)
  IN IF h[left].tag = "Epsilon" THEN [h |-> h, r |-> right]
     ELSE IF h[right].tag = "Epsilon" THEN [h |-> h, r |-> left]
     ELSE IF h[left].tag = "Null" \/ h[right].tag = "Null" THEN [h |-> h, r |-> null]
     ELSE IF h[left].tag = "Cat" THEN
       The({IF inner.r = Raised THEN inner
            ELSE The({IF outer.r = Raised THEN outer
                      ELSE [h |-> outer.h, r |-> cached(outer.h, outer.r)] :
                      outer \in {_cat(inner.h, h[left].left, inner.r)}}) :
            inner \in {_cat(h, h[left].right, right)}})
     ELSE IF h[left].tag = "Any" /\ h[right].tag = "Any" THEN
       New(h, [Grammar("Any") EXCEPT !.length = h[left].length + h[right].length])
     ELSE New(h, [Grammar("Cat") EXCEPT !.left = left, !.right = right])

RECURSIVE CatFold(_, _, _, _)
CatFold(h, args, i, result) ==
  IF i = 0 THEN [h |-> h, r |-> result]
  ELSE The({IF s.r = Raised THEN s ELSE CatFold(s.h, args, i - 1, s.r) :
            s \in {_cat(h, args[i], result)}})

cat(h, args0) ==
  The({IF Len(args) = 0 THEN [h |-> h, r |-> epsilon]
        ELSE IF Len(args) = 1 THEN [h |-> h, r |-> args[1]]
        ELSE The({IF s.r = Raised THEN s ELSE [h |-> s.h, r |-> cached(s.h, s.r)] :
                    s \in {CatFold(h, args, Len(args) - 1, args[Len(args)])}}) :
       args \in {[i \in 1 .. Len(args0) |-> cached(h, args0[i])]}})

\* the children reached by union's stack walk: Union arguments are opened
RECURSIVE Flatten(_, _)
Flatten(h, S) ==
  IF \E g \in S : h[g].tag = "Union"
  THEN Flatten(h, UNION {IF h[g].tag = "Union" THEN h[g].children ELSE {g} : g \in S})
  ELSE S

\* union once its arguments are flattened into the set all
UnionOfAll(h, all) ==
  The({The({
    IF single_characters = {} /\ flattened = {} THEN [h |-> h, r |-> null]
    ELSE The({The({IF Cardinality(fl) = 1
                   THEN [h |-> cs.h, r |-> cached(cs.h, CHOOSE g \in fl : TRUE)]
                   ELSE New(cs.h, [Grammar("Union") EXCEPT !.children = fl]) :
                   fl \in {flattened \cup (IF single_characters # {} THEN {cs.r} ELSE {})}}) :
              cs \in {IF single_characters # {} THEN chars(h, single_characters)
                      ELSE [h |-> h, r |-> 0]}}) :
    flattened \in {{g \in all : /\ h[g].tag \notin {"Chars", "Null", "Epsilon"}
                                 /\ ~(h[g].tag = "Any" /\ h[g].length = 1)}
                   \cup (IF \E g \in all : h[g].tag = "Epsilon" THEN {epsilon} ELSE {})}}) :
    single_characters \in
      {UNION {h[g].chars : g \in {x \in all : h[x].tag = "Chars"}}
       \cup (IF \E g \in all : h[g].tag = "Any" /\ h[g].length = 1 THEN ANY_BYTE ELSE {})}})

\* union that does not open its Union arguments
union_no_flatten(h, args0) == UnionOfAll(h, {cached(h, g) : g \in args0})

union(h, args0) == UnionOfAll(h, Flatten(h, {cached(h, g) : g \in args0}))

RECURSIVE LiteralChars(_, _, _, _)
LiteralChars(h, s, i, acc) ==
  IF i > Len(s) THEN [h |-> h, r |-> acc]
  ELSE The({LiteralChars(c.h, s, i + 1, Append(acc, c.r)) : c \in {char(h, s[i])}})

literal(h, s) ==
  The({cat(cs.h, cs.r) : cs \in {LiteralChars(h, s, 1, << >>)}})

lazy(h, thunk) ==
  [h |-> Append(h, [Grammar("Lazy") EXCEPT !.thunk = thunk]), r |-> Len(h) + 1]

seq(h, child) == lazy(h, [kind |-> "seq", a |-> cached(h, child), b |-> 0])

optional(h, child) == union(h, {child, epsilon})

\* the heap after the module is imported: null, epsilon, dot = any(1)
ModuleHeap == any(<< NullObject, EpsilonObject >>, 1).h

\* ------------------------------------------------------------------------
\* Lazy.value.  A thunk is a closure of the client: it returns a client
\* variable (env slot), or union / cat of two client variables, or it is the
\* closure built by seq.  env is the client's variable table at call time.
\* ------------------------------------------------------------------------
thunk_body(h, env, g) ==
  LET t == h[g].thunk
  IN CASE t.kind = "seq" ->
            The({IF c.r = Raised THEN c ELSE union(c.h, {epsilon, c.r}) :
                 c \in {cat(h, << t.a, g >>)}})
       [] t.kind = "object" -> [h |-> h, r |-> Raised]
       [] t.kind = "var" -> [h |-> h, r |-> env[t.a]]
       [] t.kind = "union" -> union(h, {env[t.a], env[t.b]})
       [] t.kind = "cat" -> cat(h, << env[t.a], env[t.b] >>)

\* self.__thunk(): one more invocation of g's thunk
call_thunk(h, env, g) == thunk_body([h EXCEPT ![g].calls = @ + 1], env, g)

RECURSIVE Resolve(_, _, _, _, _, _)
Resolve(h, env, self, thunked, seen, to_assign) ==
  IF thunked \in seen
  THEN [h |-> h, r |-> null, to_assign |-> to_assign]
  ELSE LET seen1 == seen \cup {thunked}
           n == h[thunked]
       IN IF n.tag = "Union" /\ self \in n.children THEN
            The({Resolve(u.h, env, self, u.r, seen1, to_assign) :
                   u \in {union(h, n.children \ seen1)}})
          ELSE IF n.tag = "Cat" /\ (n.left = self \/ n.right = self) THEN
            Resolve(h, env, self, null, seen1, to_assign)
          ELSE IF n.tag = "Lazy" THEN
            IF n.thunk.kind = "value"
            THEN Resolve(h, env, self, n.thunk.a, seen1, to_assign)
            ELSE The({IF t.r = Raised
                      THEN [h |-> t.h, r |-> Raised, to_assign |-> {}]
                      ELSE Resolve(t.h, env, self, t.r, seen1, to_assign \cup {thunked}) :
                      t \in {call_thunk(h, env, thunked)}})
          ELSE [h |-> h, r |-> thunked, to_assign |-> to_assign]

\* Lazy.value assigning the resolved grammar to self alone, not to to_assign
value_self_only(h, env, self) ==
  IF h[self].thunk.kind = "value" THEN [h |-> h, r |-> h[self].thunk.a]
  ELSE The({The({[h |-> [res.h EXCEPT
                           ![self].thunk = [kind |-> "value", a |-> res.r, b |-> 0]],
                   r |-> res.r] :
                  res \in {Resolve(t.h, env, self, t.r, {self}, {self})}}) :
            t \in {call_thunk(h, env, self)}})

\* Lazy.value without its for loop: nothing is stored
Assign_none(h, to_assign, thunked) == h

\* the for loop storing thunked into every Lazy of to_assign; a stored
\* non-Grammar leaves the Lazy unforced with a thunk that cannot be called
Assign(h, to_assign, thunked) ==
  [g \in 1 .. Len(h) |->
     IF g \in to_assign
     THEN [h[g] EXCEPT !.thunk = [kind |-> IF h[thunked].tag = "Object"
                                           THEN "object" ELSE "value",
                                  a |-> thunked, b |-> 0]]
     ELSE h[g]]

value(h, env, self) ==
  IF h[self].thunk.kind = "value" THEN [h |-> h, r |-> h[self].thunk.a]
  ELSE The({IF t.r = Raised THEN t
            ELSE IF t.h[t.r].tag = "Object" THEN [h |-> t.h, r |-> Raised]
            ELSE The({IF res.r = Raised THEN [h |-> res.h, r |-> Raised]
                      ELSE [h |-> Assign(res.h, res.to_assign, res.r),
                            r |-> IF res.h[res.r].tag = "Object" THEN Raised ELSE res.r] :
                      res \in {Resolve(t.h, env, self, t.r, {self}, {self})}}) :
            t \in {call_thunk(h, env, self)}})

force(h, env, g) == IF h[g].tag = "Lazy" THEN value(h, env, g) ELSE [h |-> h, r |-> g]

\* ------------------------------------------------------------------------
\* BookKeeper: reads.  A calculation context C carries the heap, the
\* client's variables, the set iteration order, values_requested (vr) and
\* whether an assertion has failed; results are returned in field v.
\* ------------------------------------------------------------------------
Ctx(h, env, ord) == [h |-> h, env |-> env, ord |-> ord, vr |-> {}, err |-> FALSE, v |-> 0]

Ret(C, v) == [C EXCEPT !.v = v]

Field(h, name, g) ==
  CASE name = "matches_empty" -> h[g].book_keeping.matches_empty
    [] name = "possible_starts" -> h[g].book_keeping.possible_starts
    [] name = "could_have_matches" -> h[g].book_keeping.could_have_matches
    [] name = "derivatives" -> h[g].book_keeping.derivatives

is_complete(h, target) == target[1] \in h[target[2]].book_keeping.complete

get_value(C, name, g) ==
  [C EXCEPT !.vr = @ \cup {<< name, g >>}, !.v = Field(C.h, name, g)]

\* book_keeping_property reading the stored value past the current BookKeeper
book_keeping_property_direct(C, name, g) == Ret(C, Field(C.h, name, g))

\* book_keeping_property while CURRENT_BOOK_KEEPER is set
book_keeping_property(C, name, g) ==
  IF name \in C.h[g].book_keeping.complete
  THEN Ret(C, Field(C.h, name, g))
  ELSE get_value(C, name, g)

\* compact without its replacements: the grammar comes back as it is
compact_off(C, g) == Ret(C, g)

compact(C, g) ==
  The({IF ~chm.v THEN Ret(chm, null)
       ELSE The({IF ps.v = {}
                 THEN The({IF me.v THEN Ret(me, epsilon)
                           ELSE [me EXCEPT !.err = TRUE, !.v = null] :
                           me \in {book_keeping_property(ps, "matches_empty", g)}})
                 ELSE Ret(ps, g) :
                 ps \in {book_keeping_property(chm, "possible_starts", g)}}) :
       chm \in {book_keeping_property(C, "could_have_matches", g)}})

derivative(C, g, c) ==
  The({IF c \notin ps.v THEN Ret(ps, null)
       ELSE The({compact(d, IF d.v[c] = 0 THEN null ELSE d.v[c]) :
                 d \in {book_keeping_property(ps, "derivatives", g)}}) :
       ps \in {book_keeping_property(C, "possible_starts", g)}})

\* derivative(g, c).force()
derivative_force(C, g, c) ==
  The({The({IF f.r = Raised THEN [d EXCEPT !.h = f.h, !.err = TRUE, !.v = null]
            ELSE [d EXCEPT !.h = f.h, !.v = f.r] :
            f \in {force(d.h, d.env, d.v)}}) :
       d \in {derivative(C, g, c)}})

\* ------------------------------------------------------------------------
\* BookKeeper: calc_* routines
\* ------------------------------------------------------------------------
\* calc_matches_empty with "or" for "and" in the Cat case
calc_matches_empty_or(C, g) ==
  LET n == C.h[g]
  IN IF n.tag = "Cat" THEN
       The({IF l.v THEN Ret(l, TRUE)
            ELSE get_value(l, "matches_empty", n.right) :
            l \in {get_value(C, "matches_empty", n.left)}})
     ELSE
       IF \E c \in n.children : C.h[c].book_keeping.matches_empty
       THEN Ret(C, TRUE)
       ELSE [C EXCEPT !.vr = @ \cup {<< "matches_empty", c >> : c \in n.children},
                      !.v = FALSE]

calc_matches_empty(C, g) ==
  LET n == C.h[g]
  IN IF n.tag = "Cat" THEN
       The({IF ~l.v THEN Ret(l, FALSE)
            ELSE get_value(l, "matches_empty", n.right) :
            l \in {get_value(C, "matches_empty", n.left)}})
     ELSE \* Union
       IF \E c \in n.children : C.h[c].book_keeping.matches_empty
       THEN Ret(C, TRUE)
       ELSE [C EXCEPT !.vr = @ \cup {<< "matches_empty", c >> : c \in n.children},
                      !.v = FALSE]

RECURSIVE UnionStarts(_, _, _, _)
UnionStarts(C, cs, i, result) ==
  IF i > Len(cs) THEN Ret(C, result)
  ELSE The({The({IF Cardinality(r) = NB THEN Ret(p, r)
                 ELSE UnionStarts(p, cs, i + 1, r) :
                 r \in {result \cup p.v}}) :
            p \in {get_value(C, "possible_starts", cs[i])}})

\* calc_possible_starts whose Cat case never looks at the right operand
calc_possible_starts_left(C, g) ==
  LET n == C.h[g]
  IN IF n.tag = "Cat" THEN get_value(C, "possible_starts", n.left)
     ELSE UnionStarts(C, Ordered(n.children, C.ord), 1, {})

calc_possible_starts(C, g) ==
  LET n == C.h[g]
  IN IF n.tag = "Cat" THEN
       The({The({IF me.v
                 THEN The({Ret(r, l.v \cup r.v) :
                           r \in {get_value(l, "possible_starts", n.right)}})
                 ELSE l :
                 l \in {get_value(me, "possible_starts", n.left)}}) :
            me \in {get_value(C, "matches_empty", n.left)}})
     ELSE UnionStarts(C, Ordered(n.children, C.ord), 1, {})

RECURSIVE UnionCould(_, _, _)
UnionCould(C, cs, i) ==
  IF i > Len(cs) THEN Ret(C, FALSE)
  ELSE The({IF p.v THEN p ELSE UnionCould(p, cs, i + 1) :
            p \in {get_value(C, "could_have_matches", cs[i])}})

\* calc_could_have_matches testing possible_starts before matches_empty
calc_could_have_matches_starts_first(C, g) ==
  LET n == C.h[g]
  IN The({IF ps.v = {} THEN Ret(ps, FALSE)
          ELSE The({IF me.v THEN me
                    ELSE IF n.tag = "Cat" THEN
                      The({IF ~l.v THEN l
                           ELSE get_value(l, "could_have_matches", n.right) :
                           l \in {get_value(me, "could_have_matches", n.left)}})
                    ELSE UnionCould(me, Ordered(n.children, C.ord), 1) :
                    me \in {get_value(ps, "matches_empty", g)}}) :
          ps \in {get_value(C, "possible_starts", g)}})

calc_could_have_matches(C, g) ==
  LET n == C.h[g]
  IN The({IF me.v THEN me
          ELSE The({IF ps.v = {} THEN Ret(ps, FALSE)
                    ELSE IF n.tag = "Cat" THEN
                      The({IF ~l.v THEN l
                           ELSE get_value(l, "could_have_matches", n.right) :
                           l \in {get_value(ps, "could_have_matches", n.left)}})
                    ELSE UnionCould(ps, Ordered(n.children, C.ord), 1) :
                    ps \in {get_value(me, "possible_starts", g)}}) :
          me \in {get_value(C, "matches_empty", g)}})

\* [derivative(child, c).force() for child in children]
RECURSIVE ChildDerivs(_, _, _, _, _)
ChildDerivs(C, cs, i, c, acc) ==
  IF i > Len(cs) THEN Ret(C, acc)
  ELSE The({ChildDerivs(d, cs, i + 1, c, acc \cup {d.v}) :
            d \in {derivative_force(C, cs[i], c)}})

RECURSIVE UnionDerivs(_, _, _, _, _)
UnionDerivs(C, cs, starts, c, result) ==
  IF c = NB THEN Ret(C, result)
  ELSE IF c \notin starts THEN UnionDerivs(C, cs, starts, c + 1, result)
  ELSE The({The({UnionDerivs([ds EXCEPT !.h = u.h], cs, starts, c + 1,
                             IF u.r # null THEN [result EXCEPT ![c] = u.r] ELSE result) :
                 u \in {union(ds.h, ds.v)}}) :
            ds \in {ChildDerivs(C, cs, 1, c, {})}})

RECURSIVE CatLeftDerivs(_, _, _, _, _, _)
\* the left part of the derivatives of a Cat without the right operand:
\* derivative(left, c) where it should be cat(derivative(left, c), right)
CatLeftDerivs_drop_right(C, left, right, starts, c, result) ==
  IF c = NB THEN Ret(C, result)
  ELSE IF c \notin starts THEN CatLeftDerivs(C, left, right, starts, c + 1, result)
  ELSE The({CatLeftDerivs(d, left, right, starts, c + 1, [result EXCEPT ![c] = d.v]) :
            d \in {derivative_force(C, left, c)}})

CatLeftDerivs(C, left, right, starts, c, result) ==
  IF c = NB THEN Ret(C, result)
  ELSE IF c \notin starts THEN CatLeftDerivs(C, left, right, starts, c + 1, result)
  ELSE The({The({CatLeftDerivs([d EXCEPT !.h = k.h], left, right, starts, c + 1,
                               [result EXCEPT ![c] = k.r]) :
                 k \in {cat(d.h, << d.v, right >>)}}) :
            d \in {derivative_force(C, left, c)}})

RECURSIVE CatRightDerivs(_, _, _, _, _)
CatRightDerivs(C, right, starts, c, result) ==
  IF c = NB THEN Ret(C, result)
  ELSE IF c \notin starts THEN CatRightDerivs(C, right, starts, c + 1, result)
  ELSE IF result[c] # 0 THEN
    The({The({CatRightDerivs([d EXCEPT !.h = u.h], right, starts, c + 1,
                             [result EXCEPT ![c] = u.r]) :
              u \in {union(d.h, {result[c], d.v})}}) :
         d \in {derivative_force(C, right, c)}})
  ELSE
    The({CatRightDerivs(d, right, starts, c + 1, [result EXCEPT ![c] = d.v]) :
         d \in {derivative(C, right, c)}})

calc_derivatives(C, g) ==
  LET n == C.h[g]
  IN IF n.tag = "Union" THEN
       The({UnionDerivs(ps, Ordered(n.children, C.ord), ps.v, 0, NoDerivs) :
            ps \in {get_value(C, "possible_starts", g)}})
     ELSE \* Cat
       The({The({The({IF me.v
                      THEN The({CatRightDerivs(pr, n.right, pr.v, 0, l.v) :
                                pr \in {get_value(me, "possible_starts", n.right)}})
                      ELSE Ret(me, l.v) :
                      me \in {get_value(l, "matches_empty", n.left)}}) :
                 l \in {CatLeftDerivs(ps, n.left, n.right, ps.v, 0, NoDerivs)}}) :
            ps \in {get_value(C, "possible_starts", n.left)}})

calc(C, target) ==
  LET name == target[1]
      g == target[2]
  IN IF C.h[g].tag = "Lazy" THEN
       The({IF f.r = Raised THEN [C EXCEPT !.h = f.h, !.err = TRUE]
            ELSE get_value([C EXCEPT !.h = f.h], name, f.r) :
            f \in {value(C.h, C.env, g)}})
     ELSE CASE name = "matches_empty" -> calc_matches_empty(C, g)
            [] name = "possible_starts" -> calc_possible_starts(C, g)
            [] name = "could_have_matches" -> calc_could_have_matches(C, g)
            [] name = "derivatives" -> calc_derivatives(C, g)

\* ------------------------------------------------------------------------
\* Client programs: a list of constructor calls, each binding the next
\* client variable.  Variables 1..3 are the module's null, epsilon, dot.
\* ------------------------------------------------------------------------
I(op, a, b, cs, n) == [op |-> op, a |-> a, b |-> b, cs |-> cs, n |-> n]

Chars(cs) == I("chars", 0, 0, cs, 0)
AnyOf(n) == I("any", 0, 0, {}, n)
CatOf(a, b) == I("cat", a, b, {}, 0)
UnionOf(a, b) == I("union", a, b, {}, 0)
SeqOf(a) == I("seq", a, 0, {}, 0)
OptionalOf(a) == I("optional", a, 0, {}, 0)
LazyVar(a) == I("lazy_var", a, 0, {}, 0)
LazyUnion(a, b) == I("lazy_union", a, b, {}, 0)
LazyCat(a, b) == I("lazy_cat", a, b, {}, 0)

Execute(h, env, ins) ==
  CASE ins.op = "chars" -> chars(h, ins.cs)
    [] ins.op = "any" -> any(h, ins.n)
    [] ins.op = "cat" -> cat(h, << env[ins.a], env[ins.b] >>)
    [] ins.op = "union" -> union(h, {env[ins.a], env[ins.b]})
    [] ins.op = "seq" -> seq(h, env[ins.a])
    [] ins.op = "optional" -> optional(h, env[ins.a])
    [] ins.op = "lazy_var" -> lazy(h, [kind |-> "var", a |-> ins.a, b |-> 0])
    [] ins.op = "lazy_union" -> lazy(h, [kind |-> "union", a |-> ins.a, b |-> ins.b])
    [] ins.op = "lazy_cat" -> lazy(h, [kind |-> "cat", a |-> ins.a, b |-> ins.b])
    [] ins.op = "object" -> [h |-> Append(h, NonGrammar), r |-> Len(h) + 1]
    [] ins.op = "cat1" -> cat(h, << env[ins.a] >>)
    [] ins.op = "union1" -> union(h, {env[ins.a]})
    [] ins.op = "value" -> value(h, env, env[ins.a])
    [] ins.op = "literal" -> literal(h, ins.s)

Leaves == {Chars(cs) : cs \in SUBSET ANY_BYTE} \cup {AnyOf(n) : n \in 0 .. 2}
Unary == {"seq", "optional"}
Binary == {"cat", "union"}
U(op, a) == I(op, a, 0, {}, 0)
B(op, a, b) == I(op, a, b, {}, 0)

Programs ==
  \* a leaf; op(leaf); op(a, leaf); op(leaf, a)
     {<< l >> : l \in Leaves}
  \cup {<< l, U(o, 4) >> : l \in Leaves, o \in Unary}
  \cup {<< Chars({0}), l, B(o, 4, 5) >> : l \in Leaves, o \in Binary}
  \cup {<< Chars({0}), l, B(o, 5, 4) >> : l \in Leaves, o \in Binary}
  \* op(op(a)), op(op(a, b)), op(op(a), b), op(b, op(a))
  \cup {<< Chars({0}), U(o1, 4), U(o2, 5) >> : o1 \in Unary, o2 \in Unary}
  \cup {<< Chars({0}), Chars({1}), B(o1, 4, 5), U(o2, 6) >> : o1 \in Binary, o2 \in Unary}
  \cup {<< Chars({0}), U(o1, 4), Chars({1}), B(o2, 5, 6) >> : o1 \in Unary, o2 \in Binary}
  \cup {<< Chars({0}), U(o1, 4), Chars({1}), B(o2, 6, 5) >> : o1 \in Unary, o2 \in Binary}
  \* x = lazy(lambda: x);  x = lazy(lambda: y), y = lazy(lambda: x)
  \cup {<< LazyVar(4) >>, << LazyVar(5), LazyVar(4) >>}
  \* x = lazy(lambda: union(a, xb)), xb = cat(x, b)      (left recursion)
  \cup {<< Chars({0}), Chars({1}), LazyUnion(4, 7), CatOf(6, 5), LazyVar(6) >>}
  \* x = union(epsilon, cat(chars, lazy(lambda: x)))     (right recursion)
  \cup {<< Chars({0}), LazyVar(7), CatOf(4, 5), UnionOf(2, 6) >>}
  \* x = lazy(lambda: cat(a, x)); x = lazy(lambda: union(x, a))
  \cup {<< Chars({0}), LazyCat(4, 5) >>, << Chars({0}), LazyUnion(5, 4) >>}
  \* x = lazy(lambda: x) below op(x), op(a, x), op(x, a)
  \cup {<< LazyVar(4), U(o, 4) >> : o \in Unary}
  \cup {<< Chars({0}), LazyVar(5), B(o, 4, 5) >> : o \in Binary}
  \cup {<< Chars({0}), LazyVar(5), B(o, 5, 4) >> : o \in Binary}

\* ------------------------------------------------------------------------
\* The regex adapter: interegular_to_wfsa of genlm_cfg/lark_interface.py
\* ------------------------------------------------------------------------
NStates == 2
FsmStates == 1 .. NStates

\* a label is a string, written as the tuple of its characters; those of the
\* pattern are 'a' and 'SS', the upper case of a case-insensitive 'ß'
Labels == {<< "a" >>, << "S", "S" >>}
\* interegular's marker for every character the pattern does not mention
anything_else == << >>
\* charset = 'core', cut down to two characters
core == {<< "a" >>, << "b" >>}

\* fsm.alphabet maps each symbol to its transition class; anything_else has a
\* class of its own, and the pattern's characters share one or have one each
Alphabets ==
  {al \in [Labels \cup {anything_else} -> 1 .. 3] :
     /\ al[anything_else] = 3
     /\ al[<< "a" >>] = 1
     /\ al[<< "S", "S" >>] \in {1, 2}}

\* the FSMs of a pattern: fsm.map[i] gives the next state for some of the classes
Fsms ==
  UNION {
    [states : {FsmStates}, initial : {1}, finals : SUBSET FsmStates, alphabet : {al},
     map : [FsmStates -> UNION {[D -> FsmStates] : D \in SUBSET {al[s] : s \in DOMAIN al}}]]
    : al \in Alphabets}

NoFsm == [states |-> {}, initial |-> 0, finals |-> {}, alphabet |-> << >>, map |-> << >>]
\* WFSA(Float): the calls of add_I, add_F and add_arc; k stands for the weight 1 / k
NoWfsa == [I |-> {}, F |-> {}, arcs |-> {}]

by_transition(f, a) == {s \in DOMAIN f.alphabet : f.alphabet[s] = a}

expand_alphabet(f, a) ==
  IF anything_else \in by_transition(f, a)
    THEN core \ DOMAIN f.alphabet
    ELSE by_transition(f, a)

\* fsm.islive(e): a final state can be reached from e
RECURSIVE reach(_, _, _)
reach(f, S, n) ==
  IF n = 0 THEN S
  ELSE reach(f, S \cup UNION {{f.map[i][a] : a \in DOMAIN f.map[i]} : i \in S}, n - 1)

islive(f, e) == reach(f, {e}, NStates) \cap f.finals # {}

rejection_states(f) == {e \in f.states : ~islive(f, e)}

\* the (class, label) pairs the loops over fsm.map[i].items() and
\* expand_alphabet(a) go through once the rejection states are skipped
expanded(f, i) ==
  {<< a, A >> \in (DOMAIN f.map[i]) \X (Labels \cup core) :
     /\ f.map[i][a] \notin rejection_states(f)
     /\ A \in expand_alphabet(f, a)}

\* "determine this state's fan out": multi-character labels are not counted
fan_out(f, i) ==
  Cardinality({e \in expanded(f, i) : Len(e[2]) = 1})
    + (IF i \in f.finals THEN 1 ELSE 0)

\* the add_arc calls of state i: one for every expanded label
add_arcs(f, i, K) ==
  {[i |-> i, a |-> e[2], j |-> f.map[i][e[1]], k |-> K] : e \in expanded(f, i)}

\* ------------------------------------------------------------------------
\* State
\* ------------------------------------------------------------------------
VARIABLES
  heap,      \* the objects; identity = index
  env,       \* client variables -> object
  prog, ip,  \* the client's construction program and its position
  order,     \* iteration order of sets of objects in this process
  pc,        \* "idle" | "running" (CURRENT_BOOK_KEEPER set) | "failed" | "overflow"
  targets, dirty, watches,   \* BookKeeper fields
  needs,     \* needs_recalculation not yet visited by the for loop
  op,        \* the client call in progress
  cur,       \* grammar reached by the scan
  consumed,  \* bytes scanned so far
  asked,     \* number of property queries issued
  answer,    \* the last value returned to the client
  trail,     \* the grammars derivative returned, one per byte consumed
  last,      \* the run that has just ended: its first target and all its targets
  fsm,       \* the FSM interegular_to_wfsa compiled from its pattern
  m,         \* the WFSA it is filling in
  visited    \* the states its for loop has been through

vars == << heap, env, prog, ip, order, pc, targets, dirty, watches, needs,
           op, cur, consumed, asked, answer, trail, last, fsm, m, visited >>
adapter == << fsm, m, visited >>

NoOp == [kind |-> "none", name |-> "", g |-> 0, c |-> 0, stage |-> "", r |-> 0]
NoRun == [q |-> << >>, marked |-> {}]
NoAnswer == [kind |-> "none", name |-> "", g |-> 0, b |-> FALSE, s |-> {}, input |-> << >>]

\* the module has been imported; the client is about to run one of P
Imported(P) ==
  /\ heap = ModuleHeap
  /\ env = << null, epsilon, dot >>
  /\ prog \in P
  /\ ip = 1
  /\ order \in {"asc", "desc"}
  /\ pc = "idle"
  /\ targets = {} /\ dirty = {} /\ watches = {} /\ needs = {}
  /\ op = NoOp
  /\ cur = 0
  /\ consumed = << >>
  /\ asked = 0
  /\ answer = NoAnswer
  /\ trail = << >>
  /\ last = NoRun

\* ... and interegular_to_wfsa has not been called
Start(P) ==
  /\ Imported(P)
  /\ fsm = NoFsm
  /\ m = NoWfsa
  /\ visited = {}

Init == Start(Programs)

Built == ip > Len(prog)
Root == env[Len(env)]
Cur == IF consumed = << >> THEN Root ELSE cur

solver == << targets, dirty, watches, needs >>
client == << op, cur, consumed, asked, answer, trail >>

\* the client runs the next constructor call of its program
Construct ==
  /\ pc = "idle" /\ ~Built
  /\ \E res \in {Execute(heap, env, prog[ip])} :
        IF res.r = Raised
        THEN pc' = "failed" /\ heap' = res.h /\ UNCHANGED << env, ip >>
        ELSE IF Len(res.h) > MaxNodes
        THEN pc' = "overflow" /\ UNCHANGED << heap, env, ip >>
        ELSE heap' = res.h /\ env' = Append(env, res.r) /\ ip' = ip + 1 /\ pc' = pc
  /\ UNCHANGED << adapter, prog, order, solver, client, last >>

\* the client reads g.matches_empty / g.possible_starts / g.could_have_matches
Ask(name, g) ==
  /\ pc = "idle" /\ Built /\ op = NoOp /\ asked < MaxAsk
  /\ op' = [NoOp EXCEPT !.kind = "ask", !.name = name, !.g = g]
  /\ asked' = asked + 1
  /\ UNCHANGED << adapter, heap, env, prog, ip, order, pc, solver, cur, consumed, answer, trail, last >>

\* the client calls derivative(cur, c): one iteration of the loop of matches
Scan(c) ==
  /\ pc = "idle" /\ Built /\ op = NoOp /\ Len(consumed) < MaxLen
  /\ op' = [NoOp EXCEPT !.kind = "scan", !.g = Cur, !.c = c, !.stage = "starts"]
  /\ UNCHANGED << adapter, heap, env, prog, ip, order, pc, solver, cur, consumed, asked, answer,
                  trail, last >>

\* the (property, object) the call in progress reads next
Need ==
  CASE op.kind = "ask" -> << op.name, op.g >>
    [] op.stage = "starts" -> << "possible_starts", op.g >>
    [] op.stage = "derivatives" -> << "derivatives", op.g >>
    [] op.stage = "compact_could" -> << "could_have_matches", op.r >>
    [] op.stage = "compact_starts" -> << "possible_starts", op.r >>
    [] op.stage = "compact_empty" -> << "matches_empty", op.r >>

\* book_keeping_property with no current BookKeeper and an incomplete value:
\* CURRENT_BOOK_KEEPER = BookKeeper(); request(key); run() takes its first snapshot
StartSolver ==
  /\ pc = "idle" /\ op # NoOp /\ ~is_complete(heap, Need)
  /\ pc' = "running"
  /\ targets' = {Need} /\ needs' = {Need} /\ dirty' = {} /\ watches' = {}
  /\ UNCHANGED << adapter, heap, env, prog, ip, order, client, last >>

Returned(g) ==
  /\ cur' = g /\ consumed' = Append(consumed, op.c) /\ op' = NoOp
  /\ trail' = Append(trail, g)
  /\ answer' = [NoAnswer EXCEPT !.kind = "derivative", !.g = g,
                                 !.input = Append(consumed, op.c)]
  /\ pc' = pc

\* derivative returning the entry of the dict as it is, without compact
Advance_uncompacted ==
  /\ pc = "idle" /\ op # NoOp /\ is_complete(heap, Need)
  /\ LET v == Field(heap, Need[1], Need[2])
     IN CASE op.kind = "ask" ->
               /\ answer' = [kind |-> "ask", name |-> op.name, g |-> op.g,
                             b |-> IF op.name = "possible_starts" THEN FALSE ELSE v,
                             s |-> IF op.name = "possible_starts" THEN v ELSE {},
                             input |-> consumed]
               /\ op' = NoOp /\ pc' = pc
               /\ UNCHANGED << cur, consumed, trail >>
          [] op.kind = "scan" /\ op.stage = "starts" ->
               IF op.c \notin v THEN Returned(null)
               ELSE /\ op' = [op EXCEPT !.stage = "derivatives"] /\ pc' = pc
                    /\ UNCHANGED << cur, consumed, answer, trail >>
          [] op.kind = "scan" /\ op.stage = "derivatives" ->
               Returned(IF v[op.c] = 0 THEN null ELSE v[op.c])
          [] op.kind = "scan" /\ op.stage = "compact_could" ->
               IF ~v THEN Returned(null)
               ELSE /\ op' = [op EXCEPT !.stage = "compact_starts"] /\ pc' = pc
                    /\ UNCHANGED << cur, consumed, answer, trail >>
          [] op.kind = "scan" /\ op.stage = "compact_starts" ->
               IF v # {} THEN Returned(op.r)
               ELSE /\ op' = [op EXCEPT !.stage = "compact_empty"] /\ pc' = pc
                    /\ UNCHANGED << cur, consumed, answer, trail >>
          [] op.kind = "scan" /\ op.stage = "compact_empty" ->
               IF v THEN Returned(epsilon)
               ELSE /\ pc' = "failed" /\ op' = NoOp
                    /\ UNCHANGED << cur, consumed, answer, trail >>
  /\ last' = NoRun
  /\ UNCHANGED << adapter, heap, env, prog, ip, order, solver, asked >>

\* the value is complete: the property returns it and the call goes on
Advance ==
  /\ pc = "idle" /\ op # NoOp /\ is_complete(heap, Need)
  /\ LET v == Field(heap, Need[1], Need[2])
     IN CASE op.kind = "ask" ->
               /\ answer' = [kind |-> "ask", name |-> op.name, g |-> op.g,
                             b |-> IF op.name = "possible_starts" THEN FALSE ELSE v,
                             s |-> IF op.name = "possible_starts" THEN v ELSE {},
                             input |-> consumed]
               /\ op' = NoOp /\ pc' = pc
               /\ UNCHANGED << cur, consumed, trail >>
          [] op.kind = "scan" /\ op.stage = "starts" ->
               IF op.c \notin v THEN Returned(null)
               ELSE /\ op' = [op EXCEPT !.stage = "derivatives"] /\ pc' = pc
                    /\ UNCHANGED << cur, consumed, answer, trail >>
          [] op.kind = "scan" /\ op.stage = "derivatives" ->
               /\ op' = [op EXCEPT !.stage = "compact_could",
                                   !.r = IF v[op.c] = 0 THEN null ELSE v[op.c]]
               /\ pc' = pc
               /\ UNCHANGED << cur, consumed, answer, trail >>
          [] op.kind = "scan" /\ op.stage = "compact_could" ->
               IF ~v THEN Returned(null)
               ELSE /\ op' = [op EXCEPT !.stage = "compact_starts"] /\ pc' = pc
                    /\ UNCHANGED << cur, consumed, answer, trail >>
          [] op.kind = "scan" /\ op.stage = "compact_starts" ->
               IF v # {} THEN Returned(op.r)
               ELSE /\ op' = [op EXCEPT !.stage = "compact_empty"] /\ pc' = pc
                    /\ UNCHANGED << cur, consumed, answer, trail >>
          [] op.kind = "scan" /\ op.stage = "compact_empty" ->
               IF v THEN Returned(epsilon)
               ELSE /\ pc' = "failed" /\ op' = NoOp
                    /\ UNCHANGED << cur, consumed, answer, trail >>
  /\ last' = NoRun
  /\ UNCHANGED << adapter, heap, env, prog, ip, order, solver, asked >>

SetField(h, target, v) ==
  CASE target[1] = "matches_empty" -> [h EXCEPT ![target[2]].book_keeping.matches_empty = v]
    [] target[1] = "possible_starts" -> [h EXCEPT ![target[2]].book_keeping.possible_starts = v]
    [] target[1] = "could_have_matches" -> [h EXCEPT ![target[2]].book_keeping.could_have_matches = v]
    [] target[1] = "derivatives" -> [h EXCEPT ![target[2]].book_keeping.derivatives = v]

\* one iteration of the for loop of BookKeeper.run on target t: calc,
\* set_value, then dependency() for every value requested
Recalculate(S, e, ord, t) ==
  IF is_complete(S.h, t) THEN S
  ELSE
    The({
      LET changed == Field(C.h, t[1], t[2]) # C.v
          h1 == IF changed THEN SetField(C.h, t, C.v) ELSE C.h
          dirty1 == S.dirty \cup (IF changed THEN {w[2] : w \in {x \in S.watches : x[1] = t}} ELSE {})
          deps == {v \in C.vr : ~is_complete(h1, v)}
          fresh == deps \ S.targets
      IN IF C.err THEN [S EXCEPT !.h = C.h, !.err = TRUE]
         ELSE [h |-> h1, targets |-> S.targets \cup fresh, dirty |-> dirty1 \cup fresh,
               watches |-> S.watches \cup {<< v, t >> : v \in deps}, err |-> FALSE] :
      C \in {calc(Ctx(S.h, e, ord), t)}})

Step(t) ==
  /\ pc = "running" /\ t \in needs
  /\ \E S \in {Recalculate([h |-> heap, targets |-> targets, dirty |-> dirty,
                              watches |-> watches, err |-> FALSE], env, order, t)} :
     LET rest == needs \ {t}
     IN IF Len(S.h) > MaxNodes THEN
          /\ pc' = "overflow"
          /\ UNCHANGED << heap, solver, op >>
        ELSE IF S.err THEN
          \* the assertion of compact propagates; finally: CURRENT_BOOK_KEEPER = None
          /\ pc' = "failed" /\ heap' = S.h /\ op' = NoOp
          /\ targets' = {} /\ dirty' = {} /\ watches' = {} /\ needs' = {}
        ELSE
          /\ pc' = pc /\ heap' = S.h /\ op' = op
          /\ targets' = S.targets /\ watches' = S.watches
          \* the for loop ends: while self.dirty takes the next snapshot
          /\ IF rest = {} THEN needs' = S.dirty /\ dirty' = {}
             ELSE needs' = rest /\ dirty' = S.dirty
  /\ UNCHANGED << adapter, env, prog, ip, order, cur, consumed, asked, answer, trail, last >>

\* mark_complete assigning the complete set where it should add to it
mark_complete_assign(h, ts) ==
  [g \in 1 .. Len(h) |->
     IF \E x \in ts : x[2] = g
     THEN [h[g] EXCEPT !.book_keeping.complete = {t[1] : t \in {x \in ts : x[2] = g}}]
     ELSE h[g]]

\* for target in self.targets: self.mark_complete(target)
mark_complete(h, ts) ==
  [g \in 1 .. Len(h) |->
     [h[g] EXCEPT !.book_keeping.complete = @ \cup {t[1] : t \in {x \in ts : x[2] = g}}]]

\* dirty is empty: every target is marked complete and the slot is cleared
Finish ==
  /\ pc = "running" /\ needs = {} /\ dirty = {}
  /\ heap' = mark_complete(heap, targets)
  /\ pc' = "idle"
  /\ last' = [q |-> Need, marked |-> targets]
  /\ targets' = {} /\ watches' = {} /\ needs' = {} /\ dirty' = {}
  /\ UNCHANGED << adapter, env, prog, ip, order, client >>

\* BookKeeper.run as one computation, every snapshot visited in one fixed
\* order; it stops where the heap outgrows MaxNodes
RECURSIVE run(_, _, _, _)
run(S, e, ord, snapshot) ==
  IF S.err \/ Len(S.h) > MaxNodes THEN S
  ELSE IF snapshot # {}
  THEN The({The({run(S1, e, ord, snapshot \ {t}) : S1 \in {Recalculate(S, e, ord, t)}}) :
            t \in {CHOOSE x \in snapshot : TRUE}})
  ELSE IF S.dirty # {} THEN run([S EXCEPT !.dirty = {}], e, ord, S.dirty)
  ELSE [S EXCEPT !.h = mark_complete(S.h, S.targets)]

\* a property read with no current BookKeeper, from heap h
query(h, e, ord, target) ==
  run([h |-> h, targets |-> {target}, dirty |-> {}, watches |-> {}, err |-> FALSE],
      e, ord, {target})

\* the heap and the environment after the whole program has been constructed
RECURSIVE Build(_, _, _, _)
Build(h, e, p, i) ==
  IF i > Len(p) THEN [h |-> h, env |-> e]
  ELSE The({Build(res.h, Append(e, res.r), p, i + 1) : res \in {Execute(h, e, p[i])}})

Constructed == Build(ModuleHeap, << null, epsilon, dot >>, prog, 1)

Properties == {"matches_empty", "possible_starts", "could_have_matches"}

Next ==
  \/ Construct
  \/ \E name \in Properties, i \in 4 .. Len(env) : Ask(name, env[i])
  \/ \E name \in Properties : consumed # << >> /\ Ask(name, cur)
  \/ \E c \in ANY_BYTE : Scan(c)
  \/ StartSolver
  \/ Advance
  \/ \E t \in needs : Step(t)
  \/ Finish

Spec == Init /\ [][Next]_vars

\* The interpreter keeps executing a call that has started.  Weak fairness of
\* the recalculation step is written with ENABLED spelled out as its guard,
\* pc = "running" /\ needs # {}: every branch of Step changes pc or needs.
NullableSeq == {<< Chars({0}), SeqOf(4) >>, << Chars({0}), OptionalOf(4), SeqOf(5) >>}

FairInit == Init /\ prog \in NullableSeq

FairSpec ==
  /\ FairInit /\ [][Next]_vars
  /\ WF_vars(StartSolver \/ Advance \/ Finish)
  /\ ([]<>~(pc = "running" /\ needs # {}) \/ []<><<\E t \in needs : Step(t)>>_vars)

\* x = union(epsilon, cat(chars(S), lazy(lambda: x))) of test_sequence_matching,
\* S a set of bytes that is neither empty nor the whole alphabet
RightRecursion == << Chars({0}), LazyVar(7), CatOf(4, 5), UnionOf(2, 6) >>

RightRecInit == Init /\ prog = RightRecursion

RightRecSpec ==
  /\ RightRecInit /\ [][Next]_vars
  /\ WF_vars(StartSolver \/ Advance \/ Finish)
  /\ ([]<>~(pc = "running" /\ needs # {}) \/ []<><<\E t \in needs : Step(t)>>_vars)

\* ------------------------------------------------------------------------
\* literal(w) of test_string_literals, w a non-empty byte string
\* ------------------------------------------------------------------------
MaxWord == 3

LiteralOf(w) == [op |-> "literal", a |-> 0, b |-> 0, cs |-> {}, n |-> 0, s |-> w]

Words == UNION {[1 .. n -> ANY_BYTE] : n \in 1 .. MaxWord}

LiteralPrograms == {<< LiteralOf(w) >> : w \in Words}

LiteralInit == Start(LiteralPrograms)

LiteralSpec == LiteralInit /\ [][Next]_vars

\* ------------------------------------------------------------------------
\* Lazy chains closing on a Union: x = lazy(lambda: y) with
\* y = lazy(lambda: union(y, a)), the same with union(x, a), and the
\* self-reference x = lazy(lambda: union(x, a)) behind a second Lazy
\* ------------------------------------------------------------------------
ChainPrograms ==
  UNION {{<< Chars(cs), LazyVar(6), LazyUnion(6, 4) >>,
          << Chars(cs), LazyVar(6), LazyUnion(5, 4) >>,
          << Chars(cs), LazyUnion(5, 4), LazyVar(5) >>} : cs \in SUBSET ANY_BYTE \ {{}}}

ChainInit == Start(ChainPrograms)

ChainSpec == ChainInit /\ [][Next]_vars

\* ------------------------------------------------------------------------
\* Lazy chains closing on a Cat: x = lazy(lambda: y) with
\* y = lazy(lambda: cat(a, y)), the same with cat(a, x) and cat(x, a), and
\* the self-reference x = lazy(lambda: cat(a, x)) behind a second Lazy
\* ------------------------------------------------------------------------
CatChainPrograms ==
  UNION {{<< Chars(cs), LazyVar(6), LazyCat(4, 6) >>,
          << Chars(cs), LazyVar(6), LazyCat(6, 4) >>,
          << Chars(cs), LazyVar(6), LazyCat(4, 5) >>,
          << Chars(cs), LazyVar(6), LazyCat(5, 4) >>,
          << Chars(cs), LazyCat(4, 5), LazyVar(5) >>} : cs \in SUBSET ANY_BYTE \ {{}}}

CatChainInit == Start(CatChainPrograms)

CatChainSpec == CatChainInit /\ [][Next]_vars

\* ------------------------------------------------------------------------
\* A Cat of two grammars that match the empty string only, reached as a
\* derivative inside a Union: l = lazy(lambda: epsilon); g = cat(l, l);
\* p = union(cat(chars(S), g), chars(T))
\* ------------------------------------------------------------------------
NullableCatPrograms ==
  {<< LazyVar(2), CatOf(4, 4), Chars({0}), CatOf(6, 5), Chars({1}), UnionOf(7, 8) >>,
   << LazyVar(2), CatOf(4, 4), Chars({1}), CatOf(6, 5), Chars({0}), UnionOf(7, 8) >>}

NullableCatInit == Start(NullableCatPrograms)

NullableCatSpec == NullableCatInit /\ [][Next]_vars

\* ------------------------------------------------------------------------
\* Clients that break a constructor's precondition: a negative length, an
\* argument that is no Grammar, a thunk that returns no Grammar.
\* ------------------------------------------------------------------------
Obj == I("object", 0, 0, {}, 0)
Cat1(a) == I("cat1", a, 0, {}, 0)
Union1(a) == I("union1", a, 0, {}, 0)
Value(a) == I("value", a, 0, {}, 0)

\* variable 4 is the non-Grammar, variable 5 a Chars or Any sibling
ArgCalls ==
  {Cat1(4), Union1(4), SeqOf(4), OptionalOf(4)}
  \cup {B(o, 4, s) : o \in Binary, s \in {1, 2, 3, 5}}
  \cup {B(o, s, 4) : o \in Binary, s \in {1, 2, 3, 5}}

ArgPrograms ==
     {<< AnyOf(n) >> : n \in {-2, -1}}
  \cup {<< Obj, l, c >> : l \in {Chars({0}), AnyOf(2)}, c \in ArgCalls}
  \* x = lazy(lambda: "x"); x = lazy(lambda: y), y = lazy(lambda: "x");
  \* seq("x"): each followed by reads of .value
  \cup {<< Obj, LazyVar(4), Value(5), Value(5) >>,
        << Obj, LazyVar(4), LazyVar(5), Value(6), Value(5) >>,
        << Obj, LazyVar(4), LazyVar(5), Value(5), Value(6) >>,
        << Obj, SeqOf(4), Value(5) >>}
  \* well-formed reads of .value
  \cup {<< l, LazyVar(4), Value(5), Value(5) >> : l \in Leaves}

ArgInit == Start(ArgPrograms)

\* a failed call ends the client: the exception is not caught
ArgSpec == ArgInit /\ [][Construct]_vars

\* ------------------------------------------------------------------------
\* interegular_to_wfsa(pattern): the live branch of the function
\* ------------------------------------------------------------------------
\* the pattern is compiled, m = WFSA(Float) and m.add_I(name(fsm.initial), 1)
\* are done; name is the identity
WfsaInit ==
  /\ Imported({<< >>})
  /\ fsm \in Fsms
  /\ m = [NoWfsa EXCEPT !.I = {[i |-> fsm.initial, k |-> 1]}]
  /\ visited = {}

\* one iteration of "for i in fsm.states", in the order the set yields them
Visit(i) ==
  /\ i \in fsm.states \ visited
  /\ visited' = visited \cup {i}
  /\ \E K \in {fan_out(fsm, i)} :
       m' = IF K = 0
              THEN m
              ELSE [m EXCEPT
                      !.F = IF i \in fsm.finals THEN @ \cup {[i |-> i, k |-> K]} ELSE @,
                      !.arcs = @ \cup add_arcs(fsm, i, K)]
  /\ UNCHANGED << heap, env, prog, ip, order, pc, solver, client, last, fsm >>

WfsaNext == \E i \in FsmStates : Visit(i)

WfsaSpec == WfsaInit /\ [][WfsaNext]_vars

\* ------------------------------------------------------------------------
\* Reference semantics: the least-fixed-point language of every object.
\* Sem gives, per object, whether the empty string is in L (e), whether L is
\* non-empty (p) and the set of first bytes of L (f); Lang gives the strings
\* of L of length <= MaxLen.  An unforced Lazy denotes what its thunk builds.
\* ------------------------------------------------------------------------
SemBottom == [e |-> FALSE, p |-> FALSE, f |-> {}]
SemEpsilon == [e |-> TRUE, p |-> TRUE, f |-> {}]
SemCat(x, y) ==
  [e |-> x.e /\ y.e, p |-> x.p /\ y.p,
   f |-> IF x.p /\ y.p THEN x.f \cup (IF x.e THEN y.f ELSE {}) ELSE {}]
SemUnion(x, y) == [e |-> x.e \/ y.e, p |-> x.p \/ y.p, f |-> x.f \cup y.f]

SemStep(h, e, S) ==
  [g \in 1 .. Len(h) |->
     LET n == h[g]
     IN CASE n.tag = "Null" -> SemBottom
          [] n.tag = "Epsilon" -> SemEpsilon
          [] n.tag = "Chars" -> [e |-> FALSE, p |-> TRUE, f |-> n.chars]
          [] n.tag = "Any" -> [e |-> FALSE, p |-> TRUE, f |-> ANY_BYTE]
          [] n.tag = "Cat" -> SemCat(S[n.left], S[n.right])
          [] n.tag = "Union" ->
               [e |-> \E c \in n.children : S[c].e,
                p |-> \E c \in n.children : S[c].p,
                f |-> UNION {S[c].f : c \in n.children}]
          [] n.tag = "Lazy" ->
               CASE n.thunk.kind = "value" -> S[n.thunk.a]
                 [] n.thunk.kind = "var" -> S[e[n.thunk.a]]
                 [] n.thunk.kind = "union" -> SemUnion(S[e[n.thunk.a]], S[e[n.thunk.b]])
                 [] n.thunk.kind = "cat" -> SemCat(S[e[n.thunk.a]], S[e[n.thunk.b]])
                 [] n.thunk.kind = "seq" -> SemUnion(SemEpsilon, SemCat(S[n.thunk.a], S[g]))]

RECURSIVE SemFix(_, _, _)
SemFix(h, e, S) ==
  The({IF T = S THEN S ELSE SemFix(h, e, T) : T \in {SemStep(h, e, S)}})

Sem == SemFix(heap, env, [g \in 1 .. Len(heap) |-> SemBottom])

Strings == UNION {[1 .. n -> ANY_BYTE] : n \in 0 .. MaxLen}

Concat(X, Y) == {x \o y : x \in X, y \in Y} \cap Strings

LangStep(h, e, L) ==
  [g \in 1 .. Len(h) |->
     LET n == h[g]
     IN CASE n.tag = "Null" -> {}
          [] n.tag = "Epsilon" -> {<< >>}
          [] n.tag = "Chars" -> {<< c >> : c \in n.chars}
          [] n.tag = "Any" -> {s \in Strings : Len(s) = n.length}
          [] n.tag = "Cat" -> Concat(L[n.left], L[n.right])
          [] n.tag = "Union" -> UNION {L[c] : c \in n.children}
          [] n.tag = "Lazy" ->
               CASE n.thunk.kind = "value" -> L[n.thunk.a]
                 [] n.thunk.kind = "var" -> L[e[n.thunk.a]]
                 [] n.thunk.kind = "union" -> L[e[n.thunk.a]] \cup L[e[n.thunk.b]]
                 [] n.thunk.kind = "cat" -> Concat(L[e[n.thunk.a]], L[e[n.thunk.b]])
                 [] n.thunk.kind = "seq" -> {<< >>} \cup Concat(L[n.thunk.a], L[g])]

RECURSIVE LangFix(_, _, _)
LangFix(h, e, L) ==
  The({IF T = L THEN L ELSE LangFix(h, e, T) : T \in {LangStep(h, e, L)}})

Lang == LangFix(heap, env, [g \in 1 .. Len(heap) |-> {}])

Objects == 1 .. Len(heap)
Complete(name) == {g \in Objects : name \in heap[g].book_keeping.complete}
Composite == {g \in Objects : heap[g].tag \in {"Cat", "Union", "Lazy"}}

\* the grammar the scan stood at before its i-th byte
Before(i) == IF i = 1 THEN Root ELSE trail[i - 1]

\* ------------------------------------------------------------------------
\* Properties
\* ------------------------------------------------------------------------

\* C1: the first call derivative(g, b) of matches(g, b.s) returns, and the
\* grammar it returns accepts exactly the s with b.s in L(g), so that
\* matches(g, b.s) is true exactly when b.s is in L(g).  A run that outgrows
\* MaxNodes objects is not counted against the property.
C1_DerivativeDecidesLanguage ==
  (op.kind = "scan" /\ consumed = << >>)
    ~> (\/ pc = "overflow"
        \/ /\ op = NoOp /\ Len(consumed) = 1
           /\ LET L == Lang
              IN \A s \in Strings :
                   Len(s) < MaxLen => (s \in L[cur] <=> (consumed \o s) \in L[Root]))

\* C2: canonicality: no two distinct non-Lazy objects have the same variant
\* and the same payload and children.
C2_Canonical ==
  \A g1, g2 \in Objects :
    (g1 # g2 /\ heap[g1].tag # "Lazy" /\ heap[g1].tag = heap[g2].tag)
      => [heap[g1] EXCEPT !.book_keeping = 0] # [heap[g2] EXCEPT !.book_keeping = 0]

\* C3: solver termination: every solver run that starts reaches the point
\* where dirty is empty and the call goes on (or outgrows MaxNodes objects,
\* which is not counted against the property).
C3_RunEnds == (pc = "running") ~> (pc = "idle" \/ pc = "overflow")

\* C4: order independence: the values of matches_empty, possible_starts and
\* could_have_matches that a run marks complete are those that the same query
\* marks complete on the grammar as constructed, with every snapshot visited
\* in one fixed order: neither the order of the snapshots nor the queries
\* completed before shows in them.
C4_OrderIndependent ==
  (last.q # << >> /\ last.q[2] <= Len(Constructed.h)) =>
    LET K == Constructed
        R == query(K.h, env, "asc", last.q)
    IN Len(R.h) <= MaxNodes =>
         \A t \in last.marked \cap R.targets :
           (t[1] # "derivatives" /\ t[2] <= Len(K.h))
             => Field(heap, t[1], t[2]) = Field(R.h, t[1], t[2])

\* C5: monotone solver: a property in an object's complete set stays in it,
\* and its stored value is the same after every step.
C5_CompleteIsFinal ==
  [][\A g \in Objects : \A name \in heap[g].book_keeping.complete :
        /\ name \in heap'[g].book_keeping.complete
        /\ Field(heap', name, g) = Field(heap, name, g)]_vars

\* a later run is recalculating while a Cat or Union holds completed values
C5_Witness ==
  /\ pc = "running" /\ dirty # {}
  /\ \E g \in Objects : heap[g].tag \in {"Cat", "Union"} /\ heap[g].book_keeping.complete # {}

\* C6: matches is matches_empty of the fold of derivative: once the scan has
\* returned, calling derivative again on the grammar before each byte returns
\* the grammar the scan went on with, reading completed values only, and a
\* matches_empty answer on the grammar reached is its completed matches_empty.
C6_MatchesIsFoldOfDerivative ==
  (pc = "idle" /\ op = NoOp) =>
    /\ \A i \in 1 .. Len(trail) :
         LET D == derivative(Ctx(heap, env, order), Before(i), consumed[i])
         IN D.v = trail[i] /\ D.vr = {} /\ ~D.err /\ D.h = heap
    /\ (answer.kind = "ask" /\ answer.name = "matches_empty" /\ answer.input = consumed
          /\ answer.g = Cur)
         => /\ is_complete(heap, << "matches_empty", Cur >>)
            /\ answer.b = Field(heap, "matches_empty", Cur)

\* two bytes scanned through a Cat, Union or Lazy, then matches_empty read
C6_Witness ==
  /\ pc = "idle" /\ op = NoOp /\ Len(trail) = 2
  /\ heap[Root].tag \in {"Cat", "Union", "Lazy"}
  /\ trail[1] \notin {null, epsilon}
  /\ answer.kind = "ask" /\ answer.name = "matches_empty" /\ answer.input = consumed
  /\ answer.g = Cur

\* C7: a completed matches_empty is true exactly when the empty string is in
\* L(g); so a Union with a child matching empty matches empty, and a Cat
\* matches empty when both sides do.
C7_MatchesEmptyExact ==
  Built =>
    LET S == Sem
    IN \A g \in Complete("matches_empty") : heap[g].book_keeping.matches_empty = S[g].e

\* a Cat with completed matches_empty whose left side matches empty
C7_Witness ==
  /\ Built
  /\ \E g \in Complete("matches_empty") :
       heap[g].tag = "Cat" /\ Sem[heap[g].left].e

\* C8: first-set soundness: the first byte of every non-empty string of L(g)
\* is in the completed possible_starts(g); so no byte that begins a string of
\* L(g) leaves derivative through c not in possible_starts.
C8_FirstSetSound ==
  Built =>
    LET S == Sem
    IN /\ \A g \in Complete("possible_starts") :
            S[g].f \subseteq heap[g].book_keeping.possible_starts
       /\ \A i \in 1 .. Len(trail) :
            consumed[i] \in S[Before(i)].f
              => consumed[i] \in heap[Before(i)].book_keeping.possible_starts

\* a Cat whose left side matches empty and whose right side begins with a
\* byte the left side does not begin with, possible_starts completed
C8_Witness ==
  /\ Built
  /\ \E g \in Complete("possible_starts") :
       /\ heap[g].tag = "Cat"
       /\ Sem[heap[g].left].e
       /\ Sem[g].f # Sem[heap[g].left].f

\* C9: a completed possible_starts(g) is exactly the set of first bytes of
\* the strings of L(g).
C9_PossibleStartsExact ==
  Built =>
    LET S == Sem
    IN \A g \in Complete("possible_starts") : heap[g].book_keeping.possible_starts = S[g].f

\* C10: productivity soundness: a completed could_have_matches is true
\* whenever L(g) is not empty, and whenever matches_empty(g) is true.
C10_ProductivitySound ==
  Built =>
    LET S == Sem
    IN \A g \in Complete("could_have_matches") :
         /\ S[g].p => heap[g].book_keeping.could_have_matches
         /\ (is_complete(heap, << "matches_empty", g >>) /\ heap[g].book_keeping.matches_empty)
              => heap[g].book_keeping.could_have_matches

\* a Union that matches empty and has no first byte, could_have_matches completed
C10_Witness ==
  /\ Built
  /\ \E g \in Complete("could_have_matches") :
       /\ heap[g].tag = "Union"
       /\ heap[g].book_keeping.matches_empty
       /\ heap[g].book_keeping.possible_starts = {}

\* ------------------------------------------------------------------------
\* Lazy cycles
\* ------------------------------------------------------------------------
\* the Lazy objects met from g while every thunk returns another Lazy, when
\* that chain closes a cycle; {} when it leaves the Lazy objects
RECURSIVE Chain(_, _, _)
Chain(K, g, seen) ==
  IF g \in seen THEN seen
  ELSE IF K.h[g].tag = "Lazy" /\ K.h[g].thunk.kind = "var"
  THEN Chain(K, K.env[K.h[g].thunk.a], seen \cup {g})
  ELSE {}

\* C11: once a Lazy of a chain of Lazy objects closing a cycle has been
\* read, every Lazy of its chain is forced and its value is the null object;
\* every completed property of such a Lazy has the value it has on null:
\* matches_empty false, possible_starts empty, could_have_matches false.
C11_LazyCyclesResolveToNull ==
  Built =>
    \A K \in {Constructed} : \A g \in 1 .. Len(K.h) :
      \A ch \in {Chain(K, g, {})} :
        (ch # {} /\ has_been_forced(heap, g)) =>
          /\ \A c \in ch : has_been_forced(heap, c) /\ heap[c].thunk.a = null
          /\ is_complete(heap, << "matches_empty", g >>) =>
               /\ heap[g].book_keeping.matches_empty = FALSE
               /\ heap[g].book_keeping.matches_empty = heap[null].book_keeping.matches_empty
          /\ is_complete(heap, << "possible_starts", g >>) =>
               /\ heap[g].book_keeping.possible_starts = {}
               /\ heap[g].book_keeping.possible_starts = heap[null].book_keeping.possible_starts
          /\ is_complete(heap, << "could_have_matches", g >>) =>
               /\ heap[g].book_keeping.could_have_matches = FALSE
               /\ heap[g].book_keeping.could_have_matches
                    = heap[null].book_keeping.could_have_matches

\* x = lazy(lambda: y), y = lazy(lambda: x): possible_starts of x has been
\* read and answered, and y was forced by that read
C11_Witness ==
  /\ Built
  /\ prog = << LazyVar(5), LazyVar(4) >>
  /\ answer.kind = "ask" /\ answer.name = "possible_starts" /\ answer.g = env[4]
  /\ answer.s = {}
  /\ has_been_forced(heap, env[5])

\* ------------------------------------------------------------------------
\* Identities of the constructors.  A forced Lazy argument stands for its
\* value: cached replaces it before the constructor sees it.
\* ------------------------------------------------------------------------
\* C12: union(g, null) and union(null, g) are the object g itself, for every
\* object g of every class.
C12_UnionWithNullIsSame ==
  \A g \in Objects : union(heap, {g, null}).r = cached(heap, g)

RECURSIVE StarFix(_, _)
StarFix(L, X) ==
  The({IF Y = X THEN X ELSE StarFix(L, Y) : Y \in {{<< >>} \cup Concat(L, X)}})

Star(L) == StarFix(L, {})

\* the argument c of the call seq(c) that ends the program
SeqChild == env[prog[Len(prog)].a]

\* C14: for x = seq(c), every call derivative of matches(x, s) returns, and
\* matches(x, s) is true exactly for the s that are concatenations of strings
\* of L(c), the empty string among them.  A run that outgrows MaxNodes
\* objects is not counted against the property.
C14_StarClosure ==
  /\ [](( /\ Built /\ pc = "idle" /\ op = NoOp
          /\ answer.kind = "ask" /\ answer.name = "matches_empty"
          /\ answer.g = Cur /\ answer.input = consumed )
        => (answer.b <=> consumed \in Star(Lang[SeqChild])))
  /\ (op # NoOp /\ pc # "failed") ~> (op = NoOp \/ pc = "overflow")

\* ------------------------------------------------------------------------
\* The right-recursive sequence x = union(epsilon, cat(chars(S), lazy(x)))
\* ------------------------------------------------------------------------
\* C15: every call of matches(x, s) returns, and matches(x, s) is true for
\* every s whose bytes are all in S, the empty string among them, and false
\* for every s containing a byte outside S.
C15_SequenceMatching ==
  /\ [](( /\ Built /\ pc = "idle" /\ op = NoOp
          /\ answer.kind = "ask" /\ answer.name = "matches_empty"
          /\ answer.g = Cur /\ answer.input = consumed )
        => (answer.b <=> \A i \in 1 .. Len(consumed) : consumed[i] \in heap[env[4]].chars))
  /\ (op # NoOp) ~> (op = NoOp /\ pc = "idle")

\* matches(x, s) has answered true on a string of two bytes of S
C15_Witness ==
  /\ prog = RightRecursion /\ Built /\ pc = "idle" /\ op = NoOp
  /\ Len(consumed) = 2 /\ \A i \in 1 .. 2 : consumed[i] \in heap[env[4]].chars
  /\ answer.kind = "ask" /\ answer.name = "matches_empty"
  /\ answer.g = Cur /\ answer.input = consumed
  /\ answer.b

\* C16: for x = union(epsilon, cat(chars(S), lazy(x))) and b in S,
\* derivative(x, b) is the object x itself: every grammar that a scan of
\* bytes of S returns is x, so the scan reaches no other object.
C16_DerivativeOfFixpointIsSame ==
  (prog = RightRecursion /\ Built) =>
    \A i \in 1 .. Len(trail) :
      (\A j \in 1 .. i : consumed[j] \in heap[env[4]].chars) => trail[i] = Root

\* ------------------------------------------------------------------------
\* Canonical forms
\* ------------------------------------------------------------------------
\* C17: no Chars object has the empty set or the set of all bytes, and no Any
\* object has length 0: chars of the empty set is null, chars of all bytes is
\* the Any(1) object dot, any(0) is epsilon.
C17_CharsAndAnyProper ==
  /\ \A g \in Objects :
       /\ heap[g].tag = "Chars" => (heap[g].chars # {} /\ heap[g].chars # ANY_BYTE)
       /\ heap[g].tag = "Any" => heap[g].length >= 1
  /\ chars(heap, {}) = [h |-> heap, r |-> null]
  /\ chars(heap, ANY_BYTE) = [h |-> heap, r |-> dot]
  /\ heap[dot].tag = "Any" /\ heap[dot].length = 1
  /\ any(heap, 0) = [h |-> heap, r |-> epsilon]

\* union(chars({0}), chars({1})): the merged set is the whole alphabet and
\* the result is dot, no Chars object with the full set was made
C17_Witness ==
  /\ Built
  /\ prog = << Chars({0}), Chars({1}), B("union", 4, 5) >>
  /\ env[6] = dot
  /\ Len(heap) = 5

\* g1 in heap h1 and g2 in heap h2 have the same structure: the same class
\* and payload, and children of the same structure; a Lazy is itself
RECURSIVE SameStructure(_, _, _, _)
SameStructure(h1, g1, h2, g2) ==
  /\ h1[g1].tag = h2[g2].tag
  /\ CASE h1[g1].tag = "Chars" -> h1[g1].chars = h2[g2].chars
        [] h1[g1].tag = "Any" -> h1[g1].length = h2[g2].length
        [] h1[g1].tag = "Cat" ->
             /\ SameStructure(h1, h1[g1].left, h2, h2[g2].left)
             /\ SameStructure(h1, h1[g1].right, h2, h2[g2].right)
        [] h1[g1].tag = "Union" ->
             /\ \A c1 \in h1[g1].children : \E c2 \in h2[g2].children :
                  SameStructure(h1, c1, h2, c2)
             /\ \A c2 \in h2[g2].children : \E c1 \in h1[g1].children :
                  SameStructure(h1, c1, h2, c2)
        [] h1[g1].tag = "Lazy" -> g1 = g2
        [] OTHER -> TRUE

\* C18: every Cat object is canonical: its left child is not a Cat, neither
\* child is Epsilon or Null, and its children are not both Any objects;
\* cat(any(m), any(n)) is an Any of length m + n; and before any byte is
\* scanned, cat(cat(u, v), w) has the structure of cat(u, cat(v, w)) for all
\* objects u, v, w.
C18_CatCanonical ==
  /\ \A g \in Objects :
       heap[g].tag = "Cat" =>
         /\ heap[heap[g].left].tag \notin {"Cat", "Epsilon", "Null"}
         /\ heap[heap[g].right].tag \notin {"Epsilon", "Null"}
         /\ ~(heap[heap[g].left].tag = "Any" /\ heap[heap[g].right].tag = "Any")
  /\ \A u, v \in Objects :
       (heap[u].tag = "Any" /\ heap[v].tag = "Any") =>
         \A k \in {cat(heap, << u, v >>)} :
           k.h[k.r].tag = "Any" /\ k.h[k.r].length = heap[u].length + heap[v].length
  /\ (Built /\ pc = "idle" /\ op = NoOp /\ trail = << >>) =>
       \A u, v, w \in Objects :
         \A uv \in {cat(heap, << u, v >>)}, vw \in {cat(heap, << v, w >>)} :
           \A l \in {cat(uv.h, << uv.r, w >>)}, r \in {cat(vw.h, << u, vw.r >>)} :
             SameStructure(l.h, l.r, r.h, r.r)

\* the canonical form of a Union object
CanonicalUnion(h, g) ==
  /\ Cardinality(h[g].children) >= 2
  /\ \A c \in h[g].children : h[c].tag \notin {"Union", "Null"}
  /\ Cardinality({c \in h[g].children : h[c].tag = "Chars"}) <= 1
  /\ ~((\E c \in h[g].children : h[c].tag = "Any" /\ h[c].length = 1)
        /\ (\E c \in h[g].children : h[c].tag = "Chars"))

\* C19: every Union object is canonical: at least two children, no Union or
\* Null child, at most one Chars child, no Any(1) child next to a Chars
\* child.  Before any byte is scanned, the union of any two objects is
\* canonical if it is a Union; union of nothing but null is null; and union
\* of one remaining child g is that child: g itself, or, for a Chars or an
\* Any(1), the Chars summand made from its bytes (dot for all bytes).
C19_UnionCanonical ==
  /\ \A g \in Objects : heap[g].tag = "Union" => CanonicalUnion(heap, g)
  /\ union(heap, {}) = [h |-> heap, r |-> null]
  /\ union(heap, {null}) = [h |-> heap, r |-> null]
  /\ (Built /\ pc = "idle" /\ op = NoOp /\ trail = << >>) =>
       /\ \A g1, g2 \in Objects : \A u \in {union(heap, {g1, g2})} :
            u.h[u.r].tag = "Union" => CanonicalUnion(u.h, u.r)
       /\ \A g \in Objects : \A c \in {cached(heap, g)}, u \in {union(heap, {g, null})} :
            CASE heap[c].tag = "Chars" ->
                   u.h[u.r].tag = "Chars" /\ u.h[u.r].chars = heap[c].chars
              [] heap[c].tag = "Any" /\ heap[c].length = 1 -> u = [h |-> heap, r |-> dot]
              [] heap[c].tag = "Union" ->
                   /\ u.h[u.r].tag = "Union"
                   /\ \A k \in u.h[u.r].children : \E k0 \in heap[c].children :
                        SameStructure(u.h, k, heap, k0)
              [] OTHER -> u = [h |-> heap, r |-> c]

\* union(optional(chars({0})), chars({1})): the Union argument is opened, the
\* two Chars are merged into the whole alphabet, which is dot, and the
\* result is the Union of epsilon and dot
C19_Witness ==
  /\ Built /\ pc = "idle" /\ op = NoOp /\ trail = << >>
  /\ prog = << Chars({0}), U("optional", 4), Chars({1}), B("union", 5, 6) >>
  /\ heap[env[5]].tag = "Union"
  /\ heap[env[7]].tag = "Union" /\ heap[env[7]].children = {epsilon, dot}

\* ------------------------------------------------------------------------
\* The current BookKeeper
\* ------------------------------------------------------------------------
\* the step recalculates target t and the run goes on
Recalculated(t) ==
  /\ pc = "running" /\ pc' = "running"
  /\ t \in needs /\ (needs = {t} \/ needs' = needs \ {t})

\* C20: one BookKeeper at a time.  A BookKeeper is made only while the slot
\* is empty, for the one value the client's call reads; while it runs, its
\* targets and watches are only added to; a property read while it runs
\* (derivative(child, c) inside calc_derivatives of a Union reads
\* child.possible_starts and, for c among them, child.derivatives) becomes,
\* if the value is not complete, a target of the same BookKeeper watched by
\* the target being recalculated; and whenever no run is in progress, after
\* a return or an exception, the slot is empty.
C20_SingleSolver ==
  /\ [](pc \in {"idle", "failed"} => solver = << {}, {}, {}, {} >>)
  /\ [][
       /\ (targets = {} /\ targets' # {}) =>
            (pc = "idle" /\ pc' = "running" /\ targets' = {Need})
       /\ (pc = "running" /\ pc' = "running") =>
            (targets \subseteq targets' /\ watches \subseteq watches')
       /\ \A t \in needs :
            ( /\ Recalculated(t)
              /\ t[1] = "derivatives" /\ heap[t[2]].tag = "Union"
              /\ heap[t[2]].book_keeping.possible_starts # {} ) =>
              \A child \in heap[t[2]].children :
                \A name \in {"possible_starts"} \cup
                            (IF heap[t[2]].book_keeping.possible_starts
                                  \cap heap[child].book_keeping.possible_starts # {}
                             THEN {"derivatives"} ELSE {}) :
                  ~is_complete(heap', << name, child >>) =>
                    /\ << name, child >> \in targets'
                    /\ << << name, child >>, t >> \in watches'
     ]_vars

\* a run in progress in which the derivatives of a child, read by derivative
\* inside calc_derivatives of a Union, are a target watched by that Union's
\* derivatives
C20_Witness ==
  /\ pc = "running"
  /\ \E w \in watches :
       /\ w[2][1] = "derivatives" /\ heap[w[2][2]].tag = "Union"
       /\ w[1][1] = "derivatives" /\ w[1][2] \in heap[w[2][2]].children
       /\ w[1] \in targets /\ w[1] # Need

\* C21: a constructor call that breaks its precondition raises at the call:
\* any(n) with n < 0; cat or union given an argument that is no Grammar, with
\* one argument or two, whatever the sibling (null and epsilon included);
\* reading .value of a Lazy whose thunk returns no Grammar.
C21_PreconditionViolationsRaise ==
  (pc = "idle" /\ ~Built) =>
    \A ins \in {prog[ip]} :
      (\/ ins.op = "any" /\ ins.n < 0
       \/ ins.op \in {"cat", "union"}
            /\ (heap[env[ins.a]].tag = "Object" \/ heap[env[ins.b]].tag = "Object")
       \/ ins.op \in {"cat1", "union1"} /\ heap[env[ins.a]].tag = "Object"
       \/ ins.op = "value"
            /\ heap[env[ins.a]].thunk.kind = "var"
            /\ heap[env[heap[env[ins.a]].thunk.a]].tag = "Object")
      => Execute(heap, env, ins).r = Raised

\* C22: the thunk of a Lazy is invoked at most once, whatever the client
\* constructs, asks or scans; once a Lazy is resolved its stored grammar
\* stays the same, and a later read of .value returns it and invokes no thunk
\* (no invocation count changes, the heap is left as it is).
C22_ThunkInvokedAtMostOnce ==
  [][
    /\ \A g \in 1 .. Len(heap') : heap'[g].calls <= 1
    /\ \A g \in 1 .. Len(heap) :
         has_been_forced(heap, g) =>
           /\ heap'[g].thunk = heap[g].thunk
           /\ heap'[g].calls = heap[g].calls
           /\ value(heap', env', g) = [h |-> heap', r |-> heap[g].thunk.a]
  ]_vars

\* two Lazy objects resolved by one read, each thunk invoked once, and the
\* client has gone on scanning after the resolution
C22_Witness ==
  /\ \E x, y \in 1 .. Len(heap) :
        /\ x # y
        /\ has_been_forced(heap, x) /\ has_been_forced(heap, y)
        /\ heap[x].calls = 1 /\ heap[y].calls = 1
  /\ consumed # << >>

\* C23: for a non-empty byte string w, matches(literal(w), s) is true exactly
\* when s = w, possible_starts of literal(w) is the set of w's first byte
\* alone, and literal(w) does not match the empty string.
C23_LiteralMatchesItself ==
  ( /\ Built /\ pc = "idle" /\ op = NoOp
    /\ answer.kind = "ask" /\ answer.g = Cur /\ answer.input = consumed )
  => \A w \in {prog[1].s} :
       /\ answer.name = "matches_empty" => (answer.b <=> consumed = w)
       /\ (answer.name = "possible_starts" /\ consumed = << >>) => answer.s = {w[1]}

\* matches(literal(w), w) has answered true for a w of two different bytes
C23_Witness ==
  /\ prog = << LiteralOf(<< 0, 1 >>) >> /\ Built /\ pc = "idle" /\ op = NoOp
  /\ consumed = << 0, 1 >>
  /\ answer.kind = "ask" /\ answer.name = "matches_empty"
  /\ answer.g = Cur /\ answer.input = consumed
  /\ answer.b

\* C24: before any solver run has touched it, every Cat, Union and Lazy
\* object has matches_empty = FALSE, could_have_matches = FALSE,
\* possible_starts = {} and nothing marked complete.
C24_CompositeStartsAtBottom ==
  (asked = 0 /\ consumed = << >> /\ op = NoOp) =>
    \A g \in 1 .. Len(heap) :
      heap[g].tag \in {"Cat", "Union", "Lazy"} =>
        /\ heap[g].book_keeping.matches_empty = FALSE
        /\ heap[g].book_keeping.could_have_matches = FALSE
        /\ heap[g].book_keeping.possible_starts = {}
        /\ heap[g].book_keeping.complete = {}

\* C25: every update of a stored value by a step of a solver run goes up in
\* the lattice: matches_empty and could_have_matches change only from FALSE
\* to TRUE, possible_starts changes only to a superset of what it was.
C25_UpdatesMonotone ==
  [][
    (pc = "running" /\ pc' = "running") =>
      \A g \in 1 .. Len(heap) :
        /\ heap[g].book_keeping.matches_empty => heap'[g].book_keeping.matches_empty
        /\ heap[g].book_keeping.could_have_matches
             => heap'[g].book_keeping.could_have_matches
        /\ heap[g].book_keeping.possible_starts
             \subseteq heap'[g].book_keeping.possible_starts
  ]_vars

\* C26: every (property, object) a solver run reads is complete already or a
\* target of the run; when the run has finished, every target is marked
\* complete, and the stored values satisfy the
\* equations of the object's class over the completed values of its operands:
\* Cat(L, R): matches_empty = E(L) and E(R); possible_starts = FS(L), with
\* FS(R) added when E(L); could_have_matches = matches_empty or (CHM(L) and
\* CHM(R)).  Union: the disjunction, the set union, the disjunction over the
\* children.  Lazy: the value stored on its resolved grammar.
C26_RunEndsAtFixedPoint ==
  /\ (pc = "running") =>
       \A w \in watches : w[2] \in targets /\ (w[1] \in targets \/ is_complete(heap, w[1]))
  /\ (last # NoRun) =>
       \A t \in last.marked :
         /\ is_complete(heap, t)
         /\ LET g == t[2]
                E(c) == heap[c].book_keeping.matches_empty
                FS(c) == heap[c].book_keeping.possible_starts
                CHM(c) == heap[c].book_keeping.could_have_matches
                Done(name, c) == name \in heap[c].book_keeping.complete
            IN CASE heap[g].tag = "Cat" ->
                      LET L == heap[g].left
                          R == heap[g].right
                      IN /\ ( /\ t[1] = "matches_empty"
                              /\ Done("matches_empty", L) /\ Done("matches_empty", R) )
                            => (E(g) <=> (E(L) /\ E(R)))
                         /\ ( /\ t[1] = "possible_starts"
                              /\ Done("matches_empty", L) /\ Done("possible_starts", L)
                              /\ (E(L) => Done("possible_starts", R)) )
                            => FS(g) = FS(L) \cup (IF E(L) THEN FS(R) ELSE {})
                         /\ ( /\ t[1] = "could_have_matches"
                              /\ Done("matches_empty", g)
                              /\ Done("could_have_matches", L)
                              /\ Done("could_have_matches", R) )
                            => (CHM(g) <=> (E(g) \/ (CHM(L) /\ CHM(R))))
                 [] heap[g].tag = "Union" ->
                      LET cs == heap[g].children
                      IN /\ ( /\ t[1] = "matches_empty"
                              /\ \A c \in cs : Done("matches_empty", c) )
                            => (E(g) <=> \E c \in cs : E(c))
                         /\ ( /\ t[1] = "possible_starts"
                              /\ \A c \in cs : Done("possible_starts", c) )
                            => FS(g) = UNION {FS(c) : c \in cs}
                         /\ ( /\ t[1] = "could_have_matches"
                              /\ \A c \in cs : Done("could_have_matches", c) )
                            => (CHM(g) <=> \E c \in cs : CHM(c))
                 [] heap[g].tag = "Lazy" ->
                      /\ has_been_forced(heap, g)
                      /\ Done(t[1], heap[g].thunk.a)
                      /\ Field(heap, t[1], g) = Field(heap, t[1], heap[g].thunk.a)
                 [] OTHER -> FALSE

\* a run has just finished that completed possible_starts of a Cat whose
\* left operand matches the empty string, all operands being complete
C26_Witness ==
  /\ last # NoRun
  /\ \E t \in last.marked :
       /\ t[1] = "possible_starts" /\ heap[t[2]].tag = "Cat"
       /\ heap[heap[t[2]].left].book_keeping.matches_empty
       /\ {"matches_empty", "possible_starts"}
            \subseteq heap[heap[t[2]].left].book_keeping.complete
       /\ "possible_starts" \in heap[heap[t[2]].right].book_keeping.complete
       /\ heap[heap[t[2]].right].book_keeping.possible_starts
            \ heap[heap[t[2]].left].book_keeping.possible_starts # {}

\* C27: null, epsilon, every Chars and every Any hold their final values and
\* have all four properties complete from the moment they exist (Null: FALSE,
\* {}, FALSE; Epsilon: TRUE, {}, TRUE; Chars(S): FALSE, S, TRUE; Any(n):
\* FALSE, all bytes, TRUE); no solver run has one of them as a target, so no
\* calc_ routine is run on them.
C27_LeavesCompleteFromConstruction ==
  /\ \A g \in Objects :
       heap[g].tag \in {"Null", "Epsilon", "Chars", "Any"} =>
         /\ heap[g].book_keeping.complete = all_complete
         /\ heap[g].book_keeping.matches_empty = (heap[g].tag = "Epsilon")
         /\ heap[g].book_keeping.possible_starts =
              (CASE heap[g].tag = "Chars" -> heap[g].chars
                 [] heap[g].tag = "Any" -> ANY_BYTE
                 [] OTHER -> {})
         /\ heap[g].book_keeping.could_have_matches = (heap[g].tag # "Null")
  /\ \A t \in targets \cup dirty \cup needs \cup last.marked :
       heap[t[2]].tag \in {"Cat", "Union", "Lazy"}

\* a run over a Cat of a Chars and a longer Any has finished
C27_Witness ==
  /\ last # NoRun
  /\ \E t \in last.marked :
       /\ heap[t[2]].tag = "Cat"
       /\ heap[heap[t[2]].left].tag = "Chars"
       /\ heap[heap[t[2]].right].tag = "Any" /\ heap[heap[t[2]].right].length = 2

C29_ValueResolves ==
  \A g \in Objects :
    (Built /\ heap[g].tag = "Lazy") =>
      \A v \in {value(heap, env, g)} :
        /\ v.r # Raised
        /\ v.h[v.r].tag \in {"Null", "Epsilon", "Chars", "Any", "Cat", "Union"}
        /\ has_been_forced(v.h, g) /\ v.h[g].thunk.a = v.r
        /\ \A x \in Objects :
             v.h[x].calls > heap[x].calls =>
               has_been_forced(v.h, x) /\ v.h[x].thunk.a = v.r

\* a Lazy not yet forced whose read invokes the thunk of a second Lazy
C29_Witness ==
  \E g \in Objects :
    /\ Built /\ heap[g].tag = "Lazy" /\ ~has_been_forced(heap, g)
    /\ \E x \in Objects \ {g} :
         /\ heap[x].tag = "Lazy" /\ ~has_been_forced(heap, x)
         /\ value(heap, env, g).h[x].calls > heap[x].calls

\* C30: the grammar a read of .value resolves a Lazy to is never a Union
\* that has as a child a Lazy of the read's own chain: the Lazy read, or a
\* Lazy whose thunk the read invoked on the way.
C30_NoChainLazyInResolvedUnion ==
  \A g \in Objects :
    (Built /\ heap[g].tag = "Lazy") =>
      \A v \in {value(heap, env, g)} :
        (v.r # Raised /\ v.h[v.r].tag = "Union") =>
          \A c \in v.h[v.r].children :
            c \in Objects => (c # g /\ v.h[c].calls = heap[c].calls)

\* C31: when the walk of a read of .value meets a Cat one side of which is a
\* Lazy of the read's own chain (the Lazy read, or a Lazy whose thunk the
\* read invoked on the way), the read resolves to null: so the grammar a
\* read returns is never such a Cat.
C31_NoChainLazyInResolvedCat ==
  \A g \in Objects :
    (Built /\ heap[g].tag = "Lazy") =>
      \A v \in {value(heap, env, g)} :
        (v.r # Raised /\ v.h[v.r].tag = "Cat") =>
          \A c \in {v.h[v.r].left, v.h[v.r].right} :
            c \in Objects => (c # g /\ v.h[c].calls = heap[c].calls)

\* C32: derivative(g, b) is null whenever b is not in possible_starts(g), and
\* every grammar a derivative call of the client returned is the object
\* null, the object epsilon, or an object whose completed could_have_matches
\* is TRUE and whose completed possible_starts is not empty.
C32_DerivativePruned ==
  Built =>
    \A i \in 1 .. Len(trail) :
      /\ is_complete(heap, << "possible_starts", Before(i) >>)
      /\ consumed[i] \notin heap[Before(i)].book_keeping.possible_starts
           => trail[i] = null
      /\ \/ trail[i] \in {null, epsilon}
         \/ /\ {"could_have_matches", "possible_starts"}
                 \subseteq heap[trail[i]].book_keeping.complete
            /\ heap[trail[i]].book_keeping.could_have_matches
            /\ heap[trail[i]].book_keeping.possible_starts # {}

\* a scan of two bytes: the first derivative is a composite that was kept,
\* the second is null because the byte is not among its possible_starts
C32_Witness ==
  /\ Built /\ Len(trail) = 2
  /\ heap[trail[1]].tag \in {"Cat", "Union", "Lazy"}
  /\ consumed[2] \notin heap[trail[1]].book_keeping.possible_starts
  /\ trail[2] = null

\* C33: the assertion of compact never fails: no call of the client and no
\* recalculation of a solver run ends with compact reading
\* could_have_matches TRUE, possible_starts empty and matches_empty FALSE.
C33_CompactAssertionHolds == pc # "failed"

\* C34: derivative is memoized per (g, b): after a call derivative(g, b) of
\* the client has returned, the derivatives of g are complete when b is among
\* its possible_starts, and a second call derivative(g, b) returns the same
\* object, reads completed values only (no solver run, nothing recalculated)
\* and builds no object.
C34_DerivativeMemoized ==
  (Built /\ pc = "idle" /\ op = NoOp) =>
    \A i \in 1 .. Len(trail) :
      /\ consumed[i] \in heap[Before(i)].book_keeping.possible_starts
           => is_complete(heap, << "derivatives", Before(i) >>)
      /\ \A D \in {derivative(Ctx(heap, env, order), Before(i), consumed[i])} :
           /\ D.v = trail[i]
           /\ D.vr = {} /\ ~D.err
           /\ D.h = heap

\* a derivative call on a Cat or Union has returned an object built by the
\* solver for the derivatives dict of that Cat or Union
C34_Witness ==
  /\ Built /\ pc = "idle" /\ op = NoOp /\ Len(trail) >= 1
  /\ heap[Root].tag \in {"Cat", "Union"}
  /\ consumed[1] \in heap[Root].book_keeping.possible_starts
  /\ heap[Root].book_keeping.derivatives[consumed[1]] = trail[1]
  /\ heap[trail[1]].tag \in {"Cat", "Union"}
  /\ \A i \in 1 .. Len(env) : env[i] # trail[1]

\* C35: a call derivative(g, b) on a Lazy g that has not been forced leaves
\* g unforced, invokes no thunk of g, and what it returns is a Lazy: no step
\* taken while the call is in progress forces g, and the step that returns
\* hands the client a Lazy.
C35_DerivativeKeepsLazyUnforced ==
  [][
    (op.kind = "scan" /\ heap[op.g].tag = "Lazy" /\ ~has_been_forced(heap, op.g)) =>
      /\ ~has_been_forced(heap', op.g)
      /\ heap'[op.g].calls = heap[op.g].calls
      /\ Len(trail') > Len(trail) => heap'[trail'[Len(trail')]].tag = "Lazy"
  ]_vars

\* C36: when a read of .value raises because a thunk of the chain returned
\* an object that is no Grammar, every Lazy keeps the thunk it had: none is
\* forced by the read and none stores the object.
C36_FailedForceLeavesThunks ==
  [][
    (pc = "idle" /\ pc' = "failed" /\ prog[ip].op = "value") =>
      \A g \in Objects : heap'[g].thunk = heap[g].thunk
  ]_vars

\* C37: in interegular_to_wfsa an arc whose expanded label is not a single
\* character is never passed to add_arc, so for every state the loop has been
\* through with fan-out K > 0, the number of arcs added from it, plus one if
\* the state is final, is K.
C37_MultiCharacterArcsExcluded ==
  /\ \A e \in m.arcs : Len(e.a) = 1
  /\ \A i \in visited :
       fan_out(fsm, i) > 0 =>
         Cardinality({e \in m.arcs : e.i = i}) + (IF i \in fsm.finals THEN 1 ELSE 0)
           = fan_out(fsm, i)

====
